---- MODULE Spec2Model ----
(***************************************************************************)
(* common_helper: pickling of matplotlib figures and extraction of the     *)
(* plotted data points (src/src/common_helper/matplotlib_helper.py).       *)
(*                                                                         *)
(* Two specifications share this module:                                   *)
(*   Spec        a caller builds a figure (axes, lines, collections,       *)
(*               containers, patches) and calls extract_plot_data_points   *)
(*   SpecPickle  callers save figures with save_figure_pickle and load     *)
(*               them with load_figure_pickle, which re-registers the      *)
(*               loaded figure with pyplot's registry (Gcf)                *)
(*                                                                         *)
(* Python values are tagged records: t is the Python type, "absent" is an  *)
(* attribute the object does not have, "raise" is a propagating exception. *)
(* A str is its sequence of characters.  A list carries an owner tag       *)
(* (own): 0 for a list that belongs to the figure, n > 0 for a list that   *)
(* the n-th call of extract_plot_data_points allocated.                    *)
(***************************************************************************)
EXTENDS Integers, Sequences, FiniteSets, TLC

VARIABLES
    fig,        \* the figure handed to extract_plot_data_points
    calls,      \* number of extract_plot_data_points calls made so far
    result,     \* outcome of the latest extract_plot_data_points call
    prev,       \* outcome of the call before it
    objs,       \* heap of figure objects of the pickle workflow
    dirs,       \* directories that exist on disk
    files,      \* files on disk: expanded path -> pickle blob
    gcf,        \* pyplot's registry Gcf.figs, in order; the last is active
    last,       \* the latest save_figure_pickle / load_figure_pickle call
    before      \* the call before it

extractVars == <<fig, calls, result, prev>>
pickleVars == <<objs, dirs, files, gcf, last, before>>
vars == <<fig, calls, result, prev, objs, dirs, files, gcf, last, before>>

---------------------------------------------------------------------------
(* Python values *)

None == [t |-> "None"]
Absent == [t |-> "absent"]
Str(s) == [t |-> "str", s |-> s]
Num(n) == [t |-> "num", v |-> n]
List(own, items) == [t |-> "list", own |-> own, items |-> items]
NdArray(own, items) == [t |-> "ndarray", own |-> own, items |-> items]
Raise(exc) == [t |-> "raise", exc |-> exc]

hasattr(attr) == attr.t # "absent"
IsRaise(v) == v.t = "raise"

\* str.startswith
startswith(s, prefix) ==
    /\ Len(s) >= Len(prefix)
    /\ \A i \in 1..Len(prefix) : s[i] = prefix[i]

\* float(v) of a number: the same numeric value
float(v) == v

\* ndarray.tolist(): a new list of the same items
tolist(values, own) == List(own, values.items)

---------------------------------------------------------------------------
(* extract_plot_data_points and its helpers *)

is_matplotlib_type_name_only(obj, class_name, module_prefix) ==
    obj.type.name = class_name

_is_matplotlib_type(obj, class_name, module_prefix) ==
    /\ obj.type.name = class_name
    /\ startswith(obj.type.module, module_prefix)

to_float_list_shared(values, own) ==
    IF values.t = "None" THEN List(own, <<>>)
    ELSE IF values.t = "list" THEN values
    ELSE List(own, [i \in 1..Len(values.items) |-> float(values.items[i])])

_to_float_list(values, own) ==
    IF values.t = "None" THEN List(own, <<>>)
    ELSE LET vs == IF values.t = "ndarray" THEN tolist(values, own) ELSE values
         IN  List(own, [i \in 1..Len(vs.items) |-> float(vs.items[i])])

clean_label_exact_only(label) ==
    IF label.t = "None" THEN None
    ELSE IF label.s = <<"_">> THEN None ELSE label

_clean_label(label) ==
    IF label.t = "None" THEN None
    ELSE IF startswith(label.s, <<"_">>) THEN None ELSE label

AttributeError == Raise("AttributeError")

LineSeriesLenient(line, own) ==
    IF ~hasattr(line.get_xdata) \/ ~hasattr(line.get_ydata) THEN AttributeError
    ELSE [t |-> "dict", kind |-> "line",
          label |-> _clean_label(IF hasattr(line.get_label) THEN line.get_label ELSE None),
          x |-> _to_float_list(line.get_xdata, own),
          y |-> _to_float_list(line.get_ydata, own)]

\* lines 197-207: one line artist
LineSeries(line, own) ==
    IF ~hasattr(line.get_xdata) \/ ~hasattr(line.get_ydata) \/ ~hasattr(line.get_label)
    THEN AttributeError
    ELSE [t |-> "dict", kind |-> "line",
          label |-> _clean_label(line.get_label),
          x |-> _to_float_list(line.get_xdata, own),
          y |-> _to_float_list(line.get_ydata, own)]

\* lines 213-230: one PathCollection
ScatterSeries(col, own) ==
    IF ~hasattr(col.get_offsets) THEN AttributeError
    ELSE LET offsets == IF col.get_offsets.t = "ndarray"
                        THEN tolist(col.get_offsets, own) ELSE col.get_offsets
             xy == List(own, [i \in 1..Len(offsets.items) |->
                        <<float(offsets.items[i][1]), float(offsets.items[i][2])>>])
             sizes_raw == IF hasattr(col.get_sizes) THEN col.get_sizes ELSE None
             sizes == IF sizes_raw.t # "None" THEN _to_float_list(sizes_raw, own) ELSE None
         IN  [t |-> "dict", kind |-> "scatter",
              label |-> _clean_label(IF hasattr(col.get_label) THEN col.get_label ELSE None),
              xy |-> xy,
              sizes |-> sizes]

RectOk(rect) ==
    /\ hasattr(rect.get_x) /\ hasattr(rect.get_y)
    /\ hasattr(rect.get_width) /\ hasattr(rect.get_height)

OrNoneIfAllZero(lst) ==
    IF \E i \in 1..Len(lst.items) : lst.items[i] # 0 THEN lst ELSE None

\* "widths if widths else None": a list is falsy exactly when it is empty
OrNone(lst) == IF Len(lst.items) > 0 THEN lst ELSE None

\* lines 236-254: one BarContainer
BarSeries(container, own) ==
    IF ~hasattr(container.patches) THEN AttributeError
    ELSE LET rects == container.patches.items
             n == Len(rects)
         IN  IF \E i \in 1..n : ~RectOk(rects[i]) THEN AttributeError
             ELSE LET x_centers == [i \in 1..n |->
                          float(rects[i].get_x.v + rects[i].get_width.v \div 2)]
                      heights == [i \in 1..n |-> float(rects[i].get_height.v)]
                      widths == [i \in 1..n |-> float(rects[i].get_width.v)]
                      bottoms == [i \in 1..n |-> float(rects[i].get_y.v)]
                  IN  [t |-> "dict", kind |-> "bar",
                       label |-> _clean_label(IF hasattr(container.get_label)
                                              THEN container.get_label ELSE None),
                       x |-> List(own, x_centers),
                       height |-> List(own, heights),
                       width |-> OrNone(List(own, widths)),
                       bottom |-> OrNone(List(own, bottoms))]

MatplotlibPrefix == <<"m", "a", "t", "p", "l", "o", "t", "l", "i", "b", ".">>

IsPathCollection(col) == _is_matplotlib_type(col, "PathCollection", MatplotlibPrefix)
IsBarContainer(c) == _is_matplotlib_type(c, "BarContainer", MatplotlibPrefix)

\* getattr(ax, name, []): the attribute, or an empty list when it is absent
getattr_or_empty(attr) == IF hasattr(attr) THEN attr.items ELSE <<>>

\* lines 194-254: the series of one axes, in the order of the three loops
SeriesOf(ax, own) ==
    LET lines == ax.get_lines.items
        cols == SelectSeq(getattr_or_empty(ax.collections), IsPathCollection)
        bars == SelectSeq(getattr_or_empty(ax.containers), IsBarContainer)
    IN  [i \in 1..Len(lines) |-> LineSeries(lines[i], own)]
        \o [i \in 1..Len(cols) |-> ScatterSeries(cols[i], own)]
        \o [i \in 1..Len(bars) |-> BarSeries(bars[i], own)]

\* lines 193-264: the body of the loop over the axes, for the axes at
\* position ax_index (zero-based)
AxesPlotData(ax_index, ax, own) ==
    IF ~hasattr(ax.get_lines) THEN AttributeError
    ELSE LET series == SeriesOf(ax, own)
         IN  IF \E i \in 1..Len(series) : IsRaise(series[i]) THEN AttributeError
             ELSE IF ~hasattr(ax.get_title) \/ ~hasattr(ax.get_xlabel)
                     \/ ~hasattr(ax.get_ylabel) THEN AttributeError
             ELSE [t |-> "dict", index |-> ax_index,
                   title |-> ax.get_title,
                   xlabel |-> ax.get_xlabel,
                   ylabel |-> ax.get_ylabel,
                   series |-> series]

enumerate_from_one(i) == i

\* enumerate(...): the zero-based position of the i-th axes
enumerate(i) == i - 1

\* lines 192-266: the outcome of extract_plot_data_points(fig); own tags
\* the lists this call allocates
extract_plot_data_points(f, own) ==
    IF ~hasattr(f.get_axes) THEN AttributeError
    ELSE LET axs == f.get_axes.items
             axes_data == [i \in 1..Len(axs) |-> AxesPlotData(enumerate(i), axs[i], own)]
         IN  IF \E i \in 1..Len(axs) : IsRaise(axes_data[i]) THEN AttributeError
             ELSE [t |-> "dict", own |-> own, axes |-> axes_data]

---------------------------------------------------------------------------
(* The figures a caller can build: the objects of the plotting library *)

MaxNodes == 4
MaxDefects == 1
MaxCalls == 2

Type(name, module) == [name |-> name, module |-> module]

ModCollections == MatplotlibPrefix \o <<"c", "o", "l", "l", "e", "c", "t", "i", "o", "n", "s">>
ModContainer == MatplotlibPrefix \o <<"c", "o", "n", "t", "a", "i", "n", "e", "r">>
ModForeign == <<"m", "a", "t", "p", "l", "o", "t", "l", "i", "b", "x", ".", "c">>

LblMyline == Str(<<"m", "y", "l", "i", "n", "e">>)
LblChild == Str(<<"_", "c", "h", "i", "l", "d", "0">>)
LblPts == Str(<<"p", "t", "s">>)
LblBars == Str(<<"b", "a", "r", "s">>)
LblContainer == Str(<<"_", "c", "o", "n", "t", "a", "i", "n", "e", "r", "0">>)

Line2D(xdata, ydata, label) ==
    [get_xdata |-> xdata, get_ydata |-> ydata, get_label |-> label]

\* ax.plot(...): with a label, with the library's default label, and with
\* no label and no data
Lines ==
    { Line2D(NdArray(0, <<0, 1, 2>>), NdArray(0, <<0, 1, 4>>), LblMyline),
      Line2D(List(0, <<1, 2>>), List(0, <<1, 4>>), LblChild),
      Line2D(None, None, None) }

\* an object among ax.get_lines() that has no get_label
BadLines ==
    { Line2D(NdArray(0, <<0>>), NdArray(0, <<0>>), Absent) }

Collection(type, offsets, sizes, label) ==
    [type |-> type, get_offsets |-> offsets, get_sizes |-> sizes, get_label |-> label]

Pts3 == NdArray(0, << <<0, 1>>, <<1, 2>>, <<2, 3>> >>)

\* ax.scatter(...) with one size per point, with one shared size (the
\* default), a collection whose get_sizes and get_label return None, and
\* collections of other types
Collections ==
    { Collection(Type("PathCollection", ModCollections), Pts3, NdArray(0, <<10, 20, 30>>), LblChild),
      Collection(Type("PathCollection", ModCollections), Pts3, NdArray(0, <<36>>), LblPts),
      Collection(Type("PathCollection", ModCollections), List(0, << <<5, 5>> >>), None, None),
      Collection(Type("LineCollection", ModCollections), List(0, << <<9, 9>> >>), Absent, LblPts),
      Collection(Type("PathCollection", ModForeign), List(0, << <<7, 7>> >>), None, LblPts) }

\* PathCollections without get_sizes and get_label, and without get_offsets
BadCollections ==
    { Collection(Type("PathCollection", ModCollections), List(0, <<>>), Absent, Absent),
      Collection(Type("PathCollection", ModCollections), Absent, NdArray(0, <<36>>), LblPts) }

Container(type, patches, label) ==
    [type |-> type, patches |-> patches, get_label |-> label]

\* ax.bar(...): containers start without patches (AddPatch fills them)
Containers ==
    { Container(Type("BarContainer", ModContainer), List(0, <<>>), LblBars),
      Container(Type("BarContainer", ModContainer), List(0, <<>>), LblContainer),
      Container(Type("ErrorbarContainer", ModContainer), Absent, LblBars),
      Container(Type("BarContainer", ModForeign), List(0, <<>>), LblBars) }

\* BarContainers without get_label, and without patches
BadContainers ==
    { Container(Type("BarContainer", ModContainer), List(0, <<>>), Absent),
      Container(Type("BarContainer", ModContainer), Absent, LblBars) }

Rectangle(x, y, width, height) ==
    [get_x |-> x, get_y |-> y, get_width |-> width, get_height |-> height]

\* widths are even, so that get_width() / 2.0 is a whole number
Rectangles ==
    { Rectangle(Num(0), Num(1), Num(2), Num(5)),
      Rectangle(Num(1), Num(0), Num(0), Num(0)) }

\* a patch without get_height
BadRectangles ==
    { Rectangle(Num(2), Num(1), Num(2), Absent) }

Axes(lines, collections, containers, title, xlabel, ylabel) ==
    [get_lines |-> lines, collections |-> collections, containers |-> containers,
     get_title |-> title, get_xlabel |-> xlabel, get_ylabel |-> ylabel]

E0 == List(0, <<>>)

\* fig.add_subplot(): new, empty axes, with and without title and labels
NewAxes ==
    { Axes(E0, E0, E0, Str(<<"T">>), Str(<<"x">>), Str(<<"y">>)),
      Axes(E0, E0, E0, Str(<<>>), Str(<<>>), Str(<<>>)) }

\* axes-like objects that lack one accessor
BadAxes ==
    { Axes(Absent, E0, E0, Str(<<"T">>), Str(<<"x">>), Str(<<"y">>)),
      Axes(E0, Absent, E0, Str(<<"T">>), Str(<<"x">>), Str(<<"y">>)),
      Axes(E0, E0, Absent, Str(<<"T">>), Str(<<"x">>), Str(<<"y">>)),
      Axes(E0, E0, E0, Absent, Str(<<"x">>), Str(<<"y">>)),
      Axes(E0, E0, E0, Str(<<"T">>), Str(<<"x">>), Absent) }

Figure(axes) == [get_axes |-> axes]

items(attr) == IF hasattr(attr) THEN attr.items ELSE <<>>

RECURSIVE Sum(_)
Sum(s) == IF s = <<>> THEN 0 ELSE Head(s) + Sum(Tail(s))

PatchCount(c) == Len(items(c.patches))

ArtistCount(ax) ==
    LET cs == items(ax.containers)
    IN  Len(items(ax.get_lines)) + Len(items(ax.collections)) + Len(cs)
        + Sum([i \in 1..Len(cs) |-> PatchCount(cs[i])])

\* number of axes, artists and patches of the figure
Weight(f) ==
    LET axs == items(f.get_axes)
    IN  Len(axs) + Sum([i \in 1..Len(axs) |-> ArtistCount(axs[i])])

\* objects of the figure that lack an accessor of their type
Count(s, Test(_)) == Len(SelectSeq(s, Test))

AxesLacks(ax) ==
    \/ ~hasattr(ax.get_lines) \/ ~hasattr(ax.collections) \/ ~hasattr(ax.containers)
    \/ ~hasattr(ax.get_title) \/ ~hasattr(ax.get_xlabel) \/ ~hasattr(ax.get_ylabel)

LineLacks(line) ==
    ~hasattr(line.get_xdata) \/ ~hasattr(line.get_ydata) \/ ~hasattr(line.get_label)

CollectionLacks(col) ==
    /\ col.type = Type("PathCollection", ModCollections)
    /\ ~hasattr(col.get_offsets) \/ ~hasattr(col.get_sizes) \/ ~hasattr(col.get_label)

RectangleLacks(rect) ==
    \/ ~hasattr(rect.get_x) \/ ~hasattr(rect.get_y)
    \/ ~hasattr(rect.get_width) \/ ~hasattr(rect.get_height)

ContainerLacks(c) ==
    /\ c.type = Type("BarContainer", ModContainer)
    /\ ~hasattr(c.patches) \/ ~hasattr(c.get_label)

DefectsOfContainer(c) ==
    IF c.type = Type("BarContainer", ModContainer)
    THEN (IF ContainerLacks(c) THEN 1 ELSE 0) + Count(items(c.patches), RectangleLacks)
    ELSE 0

DefectsOfAxes(ax) ==
    LET cs == items(ax.containers)
    IN  (IF AxesLacks(ax) THEN 1 ELSE 0)
        + Count(items(ax.get_lines), LineLacks)
        + Count(items(ax.collections), CollectionLacks)
        + Sum([i \in 1..Len(cs) |-> DefectsOfContainer(cs[i])])

Defects(f) ==
    LET axs == items(f.get_axes)
    IN  Sum([i \in 1..Len(axs) |-> DefectsOfAxes(axs[i])])

\* the objects the caller may add: malformed ones only up to MaxDefects
Some(good, bad) == IF Defects(fig) < MaxDefects THEN good \cup bad ELSE good

Append1(lst, x) == [lst EXCEPT !.items = Append(@, x)]

LastAxes == fig.get_axes.items[Len(fig.get_axes.items)]

SetLastAxes(ax) ==
    fig' = [fig EXCEPT !.get_axes.items[Len(fig.get_axes.items)] = ax]

CanDraw ==
    /\ calls = 0
    /\ hasattr(fig.get_axes)
    /\ Len(fig.get_axes.items) > 0
    /\ Weight(fig) < MaxNodes

AddAxes ==
    /\ calls = 0
    /\ hasattr(fig.get_axes)
    /\ Weight(fig) < MaxNodes
    /\ \E ax \in Some(NewAxes, BadAxes) : fig' = [fig EXCEPT !.get_axes = Append1(@, ax)]
    /\ UNCHANGED <<calls, result, prev>>
    /\ UNCHANGED pickleVars

AddLine ==
    /\ CanDraw
    /\ hasattr(LastAxes.get_lines)
    /\ \E line \in Some(Lines, BadLines) : SetLastAxes([LastAxes EXCEPT !.get_lines = Append1(@, line)])
    /\ UNCHANGED <<calls, result, prev>>
    /\ UNCHANGED pickleVars

AddCollection ==
    /\ CanDraw
    /\ hasattr(LastAxes.collections)
    /\ \E col \in Some(Collections, BadCollections) :
          SetLastAxes([LastAxes EXCEPT !.collections = Append1(@, col)])
    /\ UNCHANGED <<calls, result, prev>>
    /\ UNCHANGED pickleVars

AddContainer ==
    /\ CanDraw
    /\ hasattr(LastAxes.containers)
    /\ \E c \in Some(Containers, BadContainers) :
          SetLastAxes([LastAxes EXCEPT !.containers = Append1(@, c)])
    /\ UNCHANGED <<calls, result, prev>>
    /\ UNCHANGED pickleVars

AddPatch ==
    /\ CanDraw
    /\ hasattr(LastAxes.containers)
    /\ Len(LastAxes.containers.items) > 0
    /\ LET n == Len(LastAxes.containers.items)
       IN  /\ hasattr(LastAxes.containers.items[n].patches)
           /\ \E rect \in Some(Rectangles, BadRectangles) :
                 SetLastAxes([LastAxes EXCEPT
                     !.containers.items[n].patches = Append1(@, rect)])
    /\ UNCHANGED <<calls, result, prev>>
    /\ UNCHANGED pickleVars

NoCall == [t |-> "nocall"]

\* a call of extract_plot_data_points(fig)
Extract ==
    /\ calls < MaxCalls
    /\ calls' = calls + 1
    /\ result' = extract_plot_data_points(fig, calls + 1)
    /\ prev' = result
    /\ fig' = fig
    /\ UNCHANGED pickleVars

PickleIdle ==
    /\ objs = <<>> /\ dirs = {} /\ files = <<>> /\ gcf = <<>>
    /\ last = NoCall /\ before = NoCall

Init ==
    /\ fig \in {Figure(E0), Figure(Absent)}
    /\ calls = 0
    /\ result = NoCall
    /\ prev = NoCall
    /\ PickleIdle

Next == AddAxes \/ AddLine \/ AddCollection \/ AddContainer \/ AddPatch \/ Extract

Spec == Init /\ [][Next]_vars

---------------------------------------------------------------------------
(* The pickle workflow: disk, heap of figures, pyplot's registry *)

MaxObjs == 3

\* pickle.HIGHEST_PROTOCOL
HIGHEST_PROTOCOL == 5

\* a path is the sequence of its components; "~" is the home directory
Home == <<"home", "u">>

\* "~/figs/fig.pkl" and "/home/u/figs/fig.pkl"
Paths ==
    { <<"~", "figs", "fig.pkl">>,
      <<"home", "u", "figs", "fig.pkl">> }

\* Path(path).expanduser()
expanduser(path) == IF Head(path) = "~" THEN Home \o Tail(path) ELSE path

\* out_path.parent
parent(path) == SubSeq(path, 1, Len(path) - 1)

\* out_path.parent.mkdir(parents=True, exist_ok=True)
mkdir_parents(ds, dir) == ds \cup { SubSeq(dir, 1, n) : n \in 0..Len(dir) }

\* a figure object: its plotted content, its number attribute, whether it
\* has set_canvas, and the canvas it points to (the canvas of the manager
\* of that num, or None for a canvas without a manager)
FigureObj(data, number, has_set_canvas, canvas) ==
    [data |-> data, number |-> number, has_set_canvas |-> has_set_canvas,
     canvas |-> canvas]

\* a figure manager of the registry: its num and its canvas (None, or a
\* canvas whose figure is the heap object of that index; 0 is a figure of
\* pyplot's own that no caller holds)
Canvas(figure) == [t |-> "canvas", figure |-> figure]
Manager(num, canvas) == [num |-> num, canvas |-> canvas]

Nums(g) == { g[i].num : i \in 1..Len(g) }
IndexOf(g, num) == IF num \in Nums(g) THEN CHOOSE i \in 1..Len(g) : g[i].num = num ELSE 0

\* Gcf.set_active(manager): the manager moves to the end of Gcf.figs
set_active(g, num) ==
    LET i == IndexOf(g, num)
    IN  SubSeq(g, 1, i - 1) \o SubSeq(g, i + 1, Len(g)) \o <<g[i]>>

\* Gcf.get_fig_manager(num): the registry afterwards (a manager that is
\* found becomes the active one)
get_fig_manager(g, num) == IF IndexOf(g, num) # 0 THEN set_active(g, num) ELSE g

\* plt.figure(num=num) for a num the registry does not know: a new manager
\* with a canvas and a new figure of pyplot, made active
plt_figure(g, num) == Append(g, Manager(num, Canvas(0)))

\* Figure.__getstate__: the canvas is dropped; the figure remembers whether
\* its canvas' manager was in the registry
managed(o, g) == o.canvas.t = "num" /\ o.canvas.v \in Nums(g)

pickle_dump(o, protocol, g) ==
    [protocol |-> protocol,
     data |-> o.data, number |-> o.number, has_set_canvas |-> o.has_set_canvas,
     restore_to_pylab |-> managed(o, g)]

Max(S) == CHOOSE m \in S : \A n \in S : n <= m

\* pickle.load and Figure.__setstate__: a new figure with a new canvas; a
\* figure that was in the registry when pickled registers itself again under
\* the next free num.  The figure gets the heap index id.
pickle_load(blob, id, g) ==
    IF blob.restore_to_pylab
    THEN LET num == IF Nums(g) = {} THEN 1 ELSE Max(Nums(g)) + 1
         IN  [fig |-> FigureObj(blob.data, Num(num), blob.has_set_canvas, Num(num)),
              gcf |-> Append(g, Manager(num, Canvas(id)))]
    ELSE [fig |-> FigureObj(blob.data, blob.number, blob.has_set_canvas, None),
          gcf |-> g]

WriteFile(fs, path, blob) ==
    [p \in DOMAIN fs \cup {path} |-> IF p = path THEN blob ELSE fs[p]]

\* lines 79-89.  mkdir and protocol are the keyword arguments.
save_figure_pickle(o, path, protocol, mkdir) ==
    LET out_path == expanduser(path)
        ds == IF mkdir THEN mkdir_parents(dirs, parent(out_path)) ELSE dirs
        proto == IF protocol.t = "None" THEN HIGHEST_PROTOCOL ELSE protocol.v
    IN  /\ dirs' = ds
        /\ IF parent(out_path) \in ds
           THEN /\ files' = WriteFile(files, out_path, pickle_dump(objs[o], proto, gcf))
                /\ last' = [t |-> "call", op |-> "save", path |-> path, fig |-> o,
                            status |-> "returned", value |-> out_path]
           ELSE /\ files' = files
                /\ last' = [t |-> "call", op |-> "save", path |-> path, fig |-> o,
                            status |-> "raised", value |-> <<"FileNotFoundError">>]
        /\ before' = last
        /\ UNCHANGED <<objs, gcf>>

target_num_always_zero(f) == 0

\* lines 113-115
target_num(f) == IF f.number.t = "num" THEN f.number.v ELSE 0

\* the steps of the re-registration that the environment can make fail:
\* plt.figure (no usable backend), fig.set_canvas, the assignment of fig.number
Faults == {"none", "plt.figure", "set_canvas", "number"}

LoadCall(path, status, id, deserialized, loaded_number, key, swallowed) ==
    [t |-> "call", op |-> "load", path |-> path, status |-> status, value |-> id,
     deserialized |-> deserialized, loaded_number |-> loaded_number,
     target_num |-> key, swallowed |-> swallowed]

\* lines 125-146, for the manager of num key, which the registry g holds:
\* the figure and the registry afterwards, and the exceptions swallowed
attach(f, id, g, key, fault) ==
    LET manager == g[IndexOf(g, key)]
    IN  IF manager.canvas.t = "None"
        THEN [fig |-> f, gcf |-> g, swallowed |-> {}]
        ELSE LET g1 == [g EXCEPT ![IndexOf(g, key)].canvas.figure = id]
                 try_canvas == f.has_set_canvas
                 f1 == IF try_canvas /\ fault # "set_canvas"
                       THEN [f EXCEPT !.canvas = Num(manager.num)] ELSE f
                 try_number == hasattr(f1.number)
                 f2 == IF try_number /\ fault # "number"
                       THEN [f1 EXCEPT !.number = Num(manager.num)] ELSE f1
             IN  [fig |-> f2, gcf |-> set_active(g1, manager.num),
                  swallowed |-> (IF try_canvas /\ fault = "set_canvas"
                                 THEN {"set_canvas"} ELSE {})
                                \cup (IF try_number /\ fault = "number"
                                      THEN {"number"} ELSE {})]

\* lines 107-148.  fault is the step that fails in this call, if it runs.
load_figure_pickle(path, fault) ==
    LET in_path == expanduser(path)
    IN  /\ before' = last
        /\ UNCHANGED <<dirs, files>>
        /\ IF in_path \notin DOMAIN files
           THEN /\ last' = LoadCall(path, "raised", 0, FALSE, None, 0, {})
                /\ UNCHANGED <<objs, gcf>>
           ELSE LET id == Len(objs) + 1
                    un == pickle_load(files[in_path], id, gcf)
                    key == target_num(un.fig)
                    g1 == get_fig_manager(un.gcf, key)
                IN  IF IndexOf(g1, key) = 0 /\ fault = "plt.figure"
                    THEN /\ last' = LoadCall(path, "raised", id, TRUE, un.fig.number, key, {})
                         /\ objs' = Append(objs, un.fig)
                         /\ gcf' = g1
                    ELSE LET g2 == IF IndexOf(g1, key) = 0
                                   THEN get_fig_manager(plt_figure(g1, key), key)
                                   ELSE g1
                             r == attach(un.fig, id, g2, key, fault)
                         IN  /\ last' = LoadCall(path, "returned", id, TRUE,
                                                 un.fig.number, key, r.swallowed)
                             /\ objs' = Append(objs, r.fig)
                             /\ gcf' = r.gcf

\* the figure of the test: one axes, ax.plot([1, 2, 3], [1, 4, 9])
FigPlot ==
    Figure(List(0, <<Axes(List(0, <<Line2D(NdArray(0, <<1, 2, 3>>), NdArray(0, <<1, 4, 9>>), LblChild)>>),
                         E0, E0, Str(<<>>), Str(<<>>), Str(<<>>))>>))

\* a figure with labelled artists
FigBars ==
    Figure(List(0, <<Axes(List(0, <<Line2D(NdArray(0, <<0, 1, 2>>), NdArray(0, <<0, 1, 4>>), LblMyline)>>),
                         E0,
                         List(0, <<Container(Type("BarContainer", ModContainer),
                                             List(0, <<Rectangle(Num(0), Num(0), Num(2), Num(5))>>),
                                             LblBars)>>),
                         Str(<<"T">>), Str(<<"x">>), Str(<<"y">>))>>))

\* the figures that exist at the start, with the registry they live in:
\* a figure of plt.subplots() (number 1, managed), a figure made without
\* pyplot (no number attribute), a figure whose number is not in the
\* registry, and a figure-like object whose number is None and that has no
\* set_canvas; the registry may hold other figures' managers, and a manager
\* without a canvas
Scenes ==
    { [objs |-> <<FigureObj(FigPlot, Num(1), TRUE, Num(1))>>,
       gcf |-> <<Manager(1, Canvas(1))>>],
      [objs |-> <<FigureObj(FigBars, Absent, TRUE, None)>>,
       gcf |-> <<>>],
      [objs |-> <<FigureObj(FigBars, Absent, TRUE, None)>>,
       gcf |-> <<Manager(0, Canvas(0))>>],
      [objs |-> <<FigureObj(FigPlot, Num(2), TRUE, None)>>,
       gcf |-> <<>>],
      [objs |-> <<FigureObj(FigPlot, Num(2), TRUE, None)>>,
       gcf |-> <<Manager(2, Canvas(0)), Manager(1, Canvas(0))>>],
      [objs |-> <<FigureObj(FigBars, Num(2), TRUE, None)>>,
       gcf |-> <<Manager(2, None)>>],
      [objs |-> <<FigureObj(FigBars, None, FALSE, None)>>,
       gcf |-> <<Manager(1, Canvas(0))>>] }

ExtractIdle ==
    /\ fig = Figure(E0) /\ calls = 0 /\ result = NoCall /\ prev = NoCall

\* a call of save_figure_pickle(fig, path, protocol=..., mkdir=...)
Save ==
    /\ \E o \in 1..Len(objs), path \in Paths, mkdir \in BOOLEAN, protocol \in {None, Num(4)} :
          save_figure_pickle(o, path, protocol, mkdir)
    /\ UNCHANGED extractVars

\* a call of load_figure_pickle(path)
Load ==
    /\ Len(objs) < MaxObjs
    /\ \E path \in Paths, fault \in Faults : load_figure_pickle(path, fault)
    /\ UNCHANGED extractVars

InitPickle ==
    /\ ExtractIdle
    /\ \E scene \in Scenes : objs = scene.objs /\ gcf = scene.gcf
    /\ dirs = {<<>>, <<"home">>, Home}
    /\ files = <<>>
    /\ last = NoCall
    /\ before = NoCall

NextPickle == Save \/ Load

SpecPickle == InitPickle /\ [][NextPickle]_vars

---------------------------------------------------------------------------
(* Properties of extract_plot_data_points *)

Called == calls > 0
Returned == Called /\ result.t = "dict"
Raised == Called /\ IsRaise(result)

AxesOfFig == items(fig.get_axes)

\* the artists of an axes that the snapshot is to show, in the order lines,
\* PathCollections of matplotlib, BarContainers of matplotlib
InMatplotlib(obj, name) ==
    /\ obj.type.name = name
    /\ Len(obj.type.module) >= Len(MatplotlibPrefix)
    /\ SubSeq(obj.type.module, 1, Len(MatplotlibPrefix)) = MatplotlibPrefix

IsScatterArtist(col) == InMatplotlib(col, "PathCollection")
IsBarArtist(c) == InMatplotlib(c, "BarContainer")

ShownLines(ax) == items(ax.get_lines)
ShownScatters(ax) == SelectSeq(items(ax.collections), IsScatterArtist)
ShownBars(ax) == SelectSeq(items(ax.containers), IsBarArtist)
ShownArtists(ax) == ShownLines(ax) \o ShownScatters(ax) \o ShownBars(ax)

ShownKinds(ax) ==
    [i \in 1..Len(ShownLines(ax)) |-> "line"]
    \o [i \in 1..Len(ShownScatters(ax)) |-> "scatter"]
    \o [i \in 1..Len(ShownBars(ax)) |-> "bar"]

Data(values) == IF values.t \in {"None", "absent"} THEN <<>> ELSE values.items

\* the entry shows the data of the artist
Shows(entry, artist) ==
    CASE entry.kind = "line" ->
            /\ entry.x.items = Data(artist.get_xdata)
            /\ entry.y.items = Data(artist.get_ydata)
      [] entry.kind = "scatter" ->
            /\ entry.xy.items = Data(artist.get_offsets)
            /\ IF entry.sizes.t = "None"
               THEN artist.get_sizes.t \in {"None", "absent"}
               ELSE entry.sizes.items = Data(artist.get_sizes)
      [] entry.kind = "bar" ->
            LET rects == Data(artist.patches)
            IN  /\ Len(entry.height.items) = Len(rects)
                /\ \A k \in 1..Len(rects) : entry.height.items[k] = rects[k].get_height.v

Min(a, b) == IF a < b THEN a ELSE b

\* the positions <<a, i>> of the snapshot's entries: the i-th entry of the
\* a-th axes record, which stands for the i-th shown artist of the a-th axes
Entries ==
    UNION { { <<a, i>> : i \in 1..Min(Len(result.axes[a].series),
                                      Len(ShownArtists(AxesOfFig[a]))) } :
            a \in 1..Min(Len(result.axes), Len(AxesOfFig)) }

EntryAt(p) == result.axes[p[1]].series[p[2]]
ArtistAt(p) == ShownArtists(AxesOfFig[p[1]])[p[2]]

\* C7: a returned snapshot has one record per axes of fig.get_axes(), in the
\* same order; the record at position i has index i (from 0) and the title,
\* xlabel and ylabel of that axes; no axes, no records
C7_OneRecordPerAxes ==
    Returned =>
        /\ Len(result.axes) = Len(AxesOfFig)
        /\ \A i \in 1..Len(AxesOfFig) :
              /\ result.axes[i].index = i - 1
              /\ result.axes[i].title = AxesOfFig[i].get_title
              /\ result.axes[i].xlabel = AxesOfFig[i].get_xlabel
              /\ result.axes[i].ylabel = AxesOfFig[i].get_ylabel

C7_Witness ==
    /\ Returned
    /\ Len(AxesOfFig) = 2
    /\ AxesOfFig[1].get_title # AxesOfFig[2].get_title
    /\ Len(result.axes[2].series) > 0

\* C9: in every axes record the series are one line entry per artist of
\* ax.get_lines(), then one scatter entry per PathCollection of matplotlib.*
\* in ax.collections, then one bar entry per BarContainer of matplotlib.* in
\* ax.containers, each group in the axes' order; nothing else has an entry
C9_SeriesOrder ==
    Returned =>
        \A a \in 1..Min(Len(result.axes), Len(AxesOfFig)) :
            LET series == result.axes[a].series
                ax == AxesOfFig[a]
            IN  /\ [i \in 1..Len(series) |-> series[i].kind] = ShownKinds(ax)
                /\ \A i \in 1..Len(series) : Shows(series[i], ShownArtists(ax)[i])

C9_Witness ==
    /\ Returned
    /\ Len(AxesOfFig) = 1
    /\ [i \in 1..Len(result.axes[1].series) |-> result.axes[1].series[i].kind]
          = <<"line", "scatter", "bar">>

\* C6: the label of an entry is null when the artist's label is None (or
\* the artist has no get_label) or begins with an underscore, and is the
\* artist's label otherwise
LabelShown(raw) ==
    IF raw.t \in {"None", "absent"} THEN None
    ELSE IF Len(raw.s) > 0 /\ Head(raw.s) = "_" THEN None
    ELSE raw

LabelIsNormalized(entry, artist) ==
    /\ entry.label = LabelShown(artist.get_label)
    /\ entry.label.t = "str" => (entry.label.s = <<>> \/ Head(entry.label.s) # "_")

C6_LabelNormalization == Returned => \A p \in Entries : LabelIsNormalized(EntryAt(p), ArtistAt(p))

HasPlaceholderLabel(entry, artist) ==
    /\ artist.get_label.t = "str"
    /\ Len(artist.get_label.s) > 1
    /\ Head(artist.get_label.s) = "_"
    /\ entry.label = None

HasGivenLabel(entry, artist) == artist.get_label = LblMyline /\ entry.label = LblMyline

C6_Witness ==
    /\ Returned
    /\ (\E p \in Entries : HasPlaceholderLabel(EntryAt(p), ArtistAt(p)))
    /\ (\E p \in Entries : HasGivenLabel(EntryAt(p), ArtistAt(p)))

\* C5: a bar entry has one x and one height per patch of the container;
\* width and bottom are null when the container has no patches and are
\* lists of one value per patch otherwise
NullOrFull(v, n) ==
    IF n = 0 THEN v.t = "None" ELSE v.t = "list" /\ Len(v.items) = n

BarIsParallel(entry, artist) ==
    entry.kind = "bar" =>
        LET n == Len(Data(artist.patches))
        IN  /\ entry.x.t = "list" /\ Len(entry.x.items) = n
            /\ entry.height.t = "list" /\ Len(entry.height.items) = n
            /\ NullOrFull(entry.width, n)
            /\ NullOrFull(entry.bottom, n)

C5_BarArrays == Returned => \A p \in Entries : BarIsParallel(EntryAt(p), ArtistAt(p))

BarOfTwoPatches(entry, artist) ==
    entry.kind = "bar" /\ Len(Data(artist.patches)) = 2

C5_Witness == Returned /\ (\E p \in Entries : BarOfTwoPatches(EntryAt(p), ArtistAt(p)))

\* C4 (as claimed): a scatter entry with sizes has one size per point
SizesAreParallel(entry, artist) ==
    (entry.kind = "scatter" /\ entry.sizes.t # "None") =>
        Len(entry.sizes.items) = Len(entry.xy.items)

C4_SizesParallel == Returned => \A p \in Entries : SizesAreParallel(EntryAt(p), ArtistAt(p))

\* C3 (as claimed): when the figure, an axes or an artist lacks an accessor
\* of its type, the call raises and returns no snapshot
LacksAny(f) == ~hasattr(f.get_axes) \/ Defects(f) > 0

C3_AllOrNothing == (Called /\ LacksAny(fig)) => Raised

\* the accessors that extract_plot_data_points reads without a default
AxesLacksRequired(ax) ==
    \/ ~hasattr(ax.get_lines)
    \/ ~hasattr(ax.get_title) \/ ~hasattr(ax.get_xlabel) \/ ~hasattr(ax.get_ylabel)
    \/ \E i \in 1..Len(ShownLines(ax)) : LineLacks(ShownLines(ax)[i])
    \/ \E i \in 1..Len(ShownScatters(ax)) : ~hasattr(ShownScatters(ax)[i].get_offsets)
    \/ \E i \in 1..Len(ShownBars(ax)) :
          \/ ~hasattr(ShownBars(ax)[i].patches)
          \/ \E k \in 1..Len(items(ShownBars(ax)[i].patches)) :
                RectangleLacks(ShownBars(ax)[i].patches.items[k])

LacksRequired(f) ==
    \/ ~hasattr(f.get_axes)
    \/ \E a \in 1..Len(items(f.get_axes)) : AxesLacksRequired(f.get_axes.items[a])

\* the accessors that it reads with a default
OptionalDefaulted(entry, artist) ==
    /\ (entry.kind \in {"scatter", "bar"} /\ ~hasattr(artist.get_label))
          => entry.label = None
    /\ (entry.kind = "scatter" /\ ~hasattr(artist.get_sizes)) => entry.sizes = None

NoSeriesOfKind(rec, kind) == \A i \in 1..Len(rec.series) : rec.series[i].kind # kind

\* C3 (amended): the call raises exactly when an accessor read without a
\* default is missing (get_axes; get_lines, get_title, get_xlabel, get_ylabel
\* of an axes; get_xdata, get_ydata, get_label of a line; get_offsets of a
\* PathCollection; patches of a BarContainer; get_x, get_y, get_width,
\* get_height of a patch); otherwise it returns a snapshot in which an axes
\* without collections / containers has no scatter / bar series, a
\* collection or container without get_label has label null and a
\* collection without get_sizes has sizes null
C3_FailsOnRequiredOnly ==
    Called =>
        /\ Raised <=> LacksRequired(fig)
        /\ Returned =>
              /\ \A p \in Entries : OptionalDefaulted(EntryAt(p), ArtistAt(p))
              /\ \A a \in 1..Min(Len(result.axes), Len(AxesOfFig)) :
                    /\ ~hasattr(AxesOfFig[a].collections)
                          => NoSeriesOfKind(result.axes[a], "scatter")
                    /\ ~hasattr(AxesOfFig[a].containers)
                          => NoSeriesOfKind(result.axes[a], "bar")

C3_Witness == Returned /\ LacksAny(fig)

\* who allocated a list (nobody, when the value is None)
Owner(v) == IF v.t = "list" THEN {v.own} ELSE {}

OwnersOfEntry(e) ==
    CASE e.kind = "line" -> Owner(e.x) \cup Owner(e.y)
      [] e.kind = "scatter" -> Owner(e.xy) \cup Owner(e.sizes)
      [] e.kind = "bar" ->
            Owner(e.x) \cup Owner(e.height) \cup Owner(e.width) \cup Owner(e.bottom)

OwnersOfRecord(rec) == UNION { OwnersOfEntry(rec.series[i]) : i \in 1..Len(rec.series) }

\* who allocated the snapshot and the lists in it
OwnersOf(snap) ==
    {snap.own} \cup UNION { OwnersOfRecord(snap.axes[a]) : a \in 1..Len(snap.axes) }

Items(v) == IF v.t = "list" THEN [t |-> "list", items |-> v.items] ELSE v

ContentOfEntry(e) ==
    CASE e.kind = "line" -> [e EXCEPT !.x = Items(@), !.y = Items(@)]
      [] e.kind = "scatter" -> [e EXCEPT !.xy = Items(@), !.sizes = Items(@)]
      [] e.kind = "bar" -> [e EXCEPT !.x = Items(@), !.height = Items(@),
                                     !.width = Items(@), !.bottom = Items(@)]

\* the value of an outcome, as == compares it: without the owner tags
ContentOf(out) ==
    IF out.t # "dict" THEN out
    ELSE [a \in 1..Len(out.axes) |->
            [out.axes[a] EXCEPT !.series =
                [i \in 1..Len(out.axes[a].series) |-> ContentOfEntry(out.axes[a].series[i])]]]

C8_FreshAndEqual ==
    /\ Returned => OwnersOf(result) = {calls}
    /\ calls >= 2 => ContentOf(result) = ContentOf(prev)

C8_CallLeavesAllElse ==
    calls' # calls => (fig' = fig /\ UNCHANGED pickleVars)

FromPythonList(entry, artist) == entry.kind = "line" /\ artist.get_xdata.t = "list"

---------------------------------------------------------------------------
(* Properties of save_figure_pickle and load_figure_pickle *)

Loaded == last.t # "nocall" /\ last.op = "load"
LoadReturned == Loaded /\ last.status = "returned"

\* what extract_plot_data_points shows of a figure: its plotted data and labels
Plotted(o) == ContentOf(extract_plot_data_points(o.data, 1))

\* C1 (as claimed): save_figure_pickle(F, P) followed by load_figure_pickle(P)
\* returns a figure with the plotted data and labels of F
C1_RoundTrip ==
    (/\ Loaded
     /\ before.t # "nocall" /\ before.op = "save" /\ before.status = "returned"
     /\ before.path = last.path)
    => /\ last.status = "returned"
       /\ Plotted(objs[last.value]) = Plotted(objs[before.fig])

\* C2 (as claimed): once the file is deserialized, load_figure_pickle returns
\* the figure, whatever step of the re-registration fails
C2_RegistrationSwallowed == (Loaded /\ last.deserialized) => last.status = "returned"

KeyOf(number) == IF number.t = "num" THEN number.v ELSE 0

\* the manager that the latest load used
UsedManager == gcf[IndexOf(gcf, last.target_num)]

\* C10 (as claimed): after a load that returns, the key used is the loaded
\* figure's number when that is an integer and 0 otherwise; a manager with
\* a canvas is the active one, its canvas.figure is the loaded figure, and
\* the figure's number is the manager's key
C10_NumberIsKey ==
    LoadReturned =>
        /\ last.target_num = KeyOf(last.loaded_number)
        /\ IndexOf(gcf, last.target_num) # 0
        /\ UsedManager.canvas.t # "None" =>
              /\ gcf[Len(gcf)] = UsedManager
              /\ UsedManager.canvas.figure = last.value
              /\ objs[last.value].number = Num(UsedManager.num)

C10_AfterLoad ==
    /\ Cardinality(Nums(gcf)) = Len(gcf)
    /\ LoadReturned =>
          /\ last.target_num = KeyOf(last.loaded_number)
          /\ IndexOf(gcf, last.target_num) # 0
          /\ UsedManager.canvas.t # "None" =>
                /\ gcf[Len(gcf)] = UsedManager
                /\ UsedManager.canvas.figure = last.value
                /\ objs[last.value].number =
                      IF hasattr(last.loaded_number) /\ "number" \notin last.swallowed
                      THEN Num(UsedManager.num)
                      ELSE last.loaded_number

\* a load whose key the registry already holds creates no manager
C10_NoSecondManager ==
    (/\ Len(objs') = Len(objs) + 1
     /\ last'.status = "returned"
     /\ last'.target_num \in Nums(gcf))
    => /\ Nums(gcf') = Nums(gcf)
       /\ Len(gcf') = Len(gcf)
       /\ gcf[IndexOf(gcf, last'.target_num)].canvas.t # "None"
             => gcf'[Len(gcf')].canvas.figure = last'.value

\* C10 (amended): as claimed, except that the figure's number is the
\* manager's key only when the figure has a number attribute and the
\* assignment does not fail; otherwise the figure keeps the number (or the
\* lack of one) it was loaded with
C10_Registration == [](C10_AfterLoad) /\ [][C10_NoSecondManager]_vars

C10_Witness ==
    /\ LoadReturned
    /\ Len(objs) = 3
    /\ last.loaded_number.t = "num"
    /\ before.t # "nocall" /\ before.op = "load" /\ before.status = "returned"
    /\ before.target_num = last.target_num
    /\ Len(gcf) = 1
    /\ gcf[1].canvas.t # "None"
    /\ gcf[1].canvas.figure = 3

====
